---------------------------- MODULE Spec2Model ----------------------------
(***************************************************************************)
(* A model of the pyopensim packaging glue:                                *)
(*                                                                         *)
(*   - SpecRepair : the textual repair functions of                        *)
(*                  scripts/python/generate_stubs.py applied to bounded    *)
(*                  documents (texts are sequences of one-character        *)
(*                  strings, the regular expressions are computed          *)
(*                  character by character as Python's re.sub does);       *)
(*   - SpecDriver : the generate_stubs command line driver (main), the     *)
(*                  six stubgen steps, the batch post-processing of the    *)
(*                  stub files and the synthesis of __init__.pyi;          *)
(*   - SpecLoad   : the load of the pyosim package (src/pyosim/__init__.py)*)
(*                  statement by statement.                                *)
(***************************************************************************)
EXTENDS Integers, Sequences, FiniteSets, TLC

VARIABLES
    \* ---- SpecRepair
    text_in,        \* the text a repair function is applied to
    text_out,       \* the text it returned
    op,             \* which function produced text_out ("none" before any)
    \* ---- SpecDriver
    dpc,            \* position of main()
    mypy,           \* "importable" | "installable" | "unavailable"
    idx,            \* index of the next module of the stubgen loop
    success_count,  \* generate_stubs_with_stubgen's counter
    n_raised,       \* history: stubgen invocations that raised
    files,          \* the stub directory: file name -> text, or NoFile
    before,         \* history: the stub directory when the batch started
    todo,           \* the stub files the batch has still to visit (glob's list)
    visited,        \* history: the files post_process_stub_file was called on
    failed,         \* history: the files whose processing hit an exception
    escaped,        \* history: an exception left post_process_stub_file
    post_ran,       \* history: post_process_all_stubs was run
    init_ran,       \* history: create_init_stub was run
    gen_result,     \* what generate_stubs_with_stubgen returned ("unset" before)
    exit_code,      \* the exit status of the run (-1 while running)
    \* ---- SpecLoad
    pc,             \* position in the package body
    pos,            \* index of the next sub-namespace at that position
    platform,       \* "win" | "unix"
    log,            \* history: the externally visible steps, in order
    environ,        \* os.environ['LD_LIBRARY_PATH'] as a list of directories
    sys_modules,    \* the module registry: name -> module object id (0: absent)
    next_id,        \* the next fresh module object id
    init_count,     \* how many times the package body has been started
    glob,           \* globals() of the package: name -> origin of its value
    drift,          \* the expected symbols the generated modules do not have
    geometry_done,  \* addDirToGeometrySearchPaths was actually performed
    all_list,       \* __all__
    raised,         \* the exception that escaped the package body ("none")
    imported        \* what a later "import <name>" returned: name -> object id

repairVars == <<text_in, text_out, op>>
driverVars == <<dpc, mypy, idx, success_count, n_raised, files, before,
                todo, visited, failed, escaped, post_ran, init_ran, gen_result,
                exit_code>>
loadVars   == <<pc, pos, platform, log, environ, sys_modules, next_id, init_count,
                glob, drift, geometry_done, all_list, raised, imported>>
vars == <<repairVars, driverVars, loadVars>>

--------------------------------------------------------------------------
(* Characters and literals                                                 *)

Upper == {"A","B","C","D","E","F","G","H","I","J","K","L","M","N","O","P",
          "Q","R","S","T","U","V","W","X","Y","Z"}
Lower == {"a","b","c","d","e","f","g","h","i","j","k","l","m","n","o","p",
          "q","r","s","t","u","v","w","x","y","z"}
Digit == {"0","1","2","3","4","5","6","7","8","9"}
\* \w
WordChar == Upper \cup Lower \cup Digit \cup {"_"}
\* \s
Space == {" ", "\n", "\t"}

L_self     == <<"s","e","l","f">>
L_selfSep  == <<"s","e","l","f",","," ">>
L_selfComma == <<"s","e","l","f",",">>
L_def      == <<"d","e","f"," ">>
L_overload == <<"@","o","v","e","r","l","o","a","d">>
L_Any      == <<"A","n","y">>
L_import   == <<"i","m","p","o","r","t">>
L_typing   == <<"f","r","o","m"," ","t","y","p","i","n","g"," ",
                "i","m","p","o","r","t">>

\* s[i..] starts with the literal lit
HasAt(s, i, lit) ==
    /\ i >= 1
    /\ i + Len(lit) - 1 <= Len(s)
    /\ \A k \in 1..Len(lit) : s[i + k - 1] = lit[k]

\* the position after the longest run of characters of class C starting at i
RECURSIVE SpanEnd(_, _, _)
SpanEnd(s, i, C) ==
    IF i <= Len(s) /\ s[i] \in C THEN SpanEnd(s, i + 1, C) ELSE i

\* the position of the first character of s[i..] that is in class C (0: none)
RECURSIVE FindChar(_, _, _)
FindChar(s, i, C) ==
    IF i > Len(s) THEN 0
    ELSE IF s[i] \in C THEN i ELSE FindChar(s, i + 1, C)

\* \b in front of a word character at position i
WordStartAt(s, i) == i = 1 \/ s[i - 1] \notin WordChar

\* "lit in s"
Contains(s, lit) == \E i \in 1..(Len(s) + 1) : HasAt(s, i, lit)
StartsWith(s, lit) == HasAt(s, 1, lit)
EndsWith(s, lit) == Len(s) >= Len(lit) /\ HasAt(s, Len(s) - Len(lit) + 1, lit)

Slice(s, i, j) == IF i > j THEN << >> ELSE SubSeq(s, i, j)


RECURSIVE BackSpan(_, _, _)
\* the position of the last character at or before k that is not in class C
BackSpan(s, k, C) ==
    IF k >= 1 /\ s[k] \in C THEN BackSpan(s, k - 1, C) ELSE k

--------------------------------------------------------------------------
(* The regular expressions of generate_stubs.py.  MatchEnd(p, s, i) is the  *)
(* position after the match of pattern p that starts at position i (0 when  *)
(* p does not match there); Repl(p, s, i, j) is what re.sub puts in place   *)
(* of the match s[i..j-1].                                                  *)

\* \bself(<First>[<Rest>]*)
SelfMatchEnd(s, i, First, Rest) ==
    IF /\ HasAt(s, i, L_self)
       /\ WordStartAt(s, i)
       /\ i + 4 <= Len(s)
       /\ s[i + 4] \in First
    THEN SpanEnd(s, i + 5, Rest)
    ELSE 0

\* \bself,\s*self,\s*
DupMatchEnd(s, i) ==
    IF HasAt(s, i, L_selfComma) /\ WordStartAt(s, i)
    THEN LET a == SpanEnd(s, i + 5, Space)
         IN  IF HasAt(s, a, L_selfComma) THEN SpanEnd(s, a + 5, Space) ELSE 0
    ELSE 0

\* def (\w+)\(\)
EmptyParamsMatchEnd(s, i) ==
    IF HasAt(s, i, L_def)
    THEN LET n == SpanEnd(s, i + 4, WordChar)
         IN  IF n > i + 4 /\ HasAt(s, n, <<"(", ")">>) THEN n + 2 ELSE 0
    ELSE 0

\* @overload\s*def (\w+)\(self([^)]*)\)([^:]*):(.*)$   (re.MULTILINE)
OverloadDefStart(s, i) == SpanEnd(s, i + 9, Space)
OverloadMatchEnd(s, i) ==
    IF HasAt(s, i, L_overload) /\ HasAt(s, OverloadDefStart(s, i), L_def)
    THEN LET n0 == OverloadDefStart(s, i) + 4
             n1 == SpanEnd(s, n0, WordChar)
         IN  IF n1 > n0 /\ HasAt(s, n1, <<"(">> \o L_self)
             THEN LET p == FindChar(s, n1 + 5, {")"})
                      c == IF p = 0 THEN 0 ELSE FindChar(s, p + 1, {":"})
                      e == IF c = 0 THEN 0 ELSE FindChar(s, c + 1, {"\n"})
                  IN  IF c = 0 THEN 0
                      ELSE IF e = 0 THEN Len(s) + 1 ELSE e
             ELSE 0
    ELSE 0

\* def (\w+)\([^)]*,\s*\)
TrailingCommaMatchEnd(s, i) ==
    IF HasAt(s, i, L_def)
    THEN LET n == SpanEnd(s, i + 4, WordChar)
         IN  IF n > i + 4 /\ HasAt(s, n, <<"(">>)
             THEN LET p == FindChar(s, n + 1, {")"})
                      k == IF p = 0 THEN 0 ELSE BackSpan(s, p - 1, Space)
                  IN  IF p # 0 /\ k > n /\ s[k] = "," THEN p + 1 ELSE 0
             ELSE 0
    ELSE 0

MatchEnd(p, s, i) ==
    CASE p = "camel"       -> SelfMatchEnd(s, i, Upper,
                                           Upper \cup Lower \cup Digit \cup {"_"})
      [] p = "lower"       -> SelfMatchEnd(s, i, Lower,
                                           Upper \cup Lower \cup Digit \cup {"_"})
      [] p = "upper_snake" -> SelfMatchEnd(s, i, Upper \cup {"_"},
                                           Upper \cup Digit \cup {"_"})
      [] p = "duplicate"   -> DupMatchEnd(s, i)
      [] p = "empty"       -> EmptyParamsMatchEnd(s, i)
      [] p = "overload"    -> OverloadMatchEnd(s, i)
      [] p = "trailing"    -> TrailingCommaMatchEnd(s, i)

\* m.group(0).replace(', )', ')'): the match holds one ')' only, its last
\* character, so ', )' can occur at its end and nowhere else
StripCommaSpace(m) ==
    IF EndsWith(m, <<",", " ", ")">>)
    THEN Slice(m, 1, Len(m) - 3) \o <<")">>
    ELSE m

Repl(p, s, i, j) ==
    CASE p \in {"camel", "lower", "upper_snake"} ->
             L_selfSep \o Slice(s, i + 4, j - 1)
      [] p = "duplicate" -> L_selfSep
      [] p = "empty"     -> Slice(s, i, j - 3) \o <<"(">> \o L_self \o <<")">>
      [] p = "overload"  ->
             L_overload \o <<"\n", " ", " ", " ", " ">> \o L_def
                 \o Slice(s, OverloadDefStart(s, i) + 4, j - 1)
      [] p = "trailing"  -> StripCommaSpace(Slice(s, i, j - 1))

\* re.sub(p, repl, s): leftmost matches, left to right, not overlapping
RECURSIVE ReSubFrom(_, _, _)
ReSubFrom(p, s, i) ==
    IF i > Len(s) THEN << >>
    ELSE LET j == MatchEnd(p, s, i)
         IN  IF j = 0 THEN <<s[i]>> \o ReSubFrom(p, s, i + 1)
             ELSE Repl(p, s, i, j) \o ReSubFrom(p, s, j)

ReSub(p, s) == ReSubFrom(p, s, 1)

--------------------------------------------------------------------------
(* The repair functions                                                    *)

\* a slip: the upper-snake pattern is forgotten
fix_malformed_no_snake(content) == ReSub("lower", ReSub("camel", content))

fix_malformed_self_parameters(content) ==
    ReSub("upper_snake", ReSub("lower", ReSub("camel", content)))

fix_duplicate_self_parameters(content) == ReSub("duplicate", content)

\* content.split('\n')
RECURSIVE SplitLines(_)
SplitLines(s) ==
    LET n == FindChar(s, 1, {"\n"})
    IN  IF n = 0 THEN <<s>>
        ELSE <<Slice(s, 1, n - 1)>> \o SplitLines(Slice(s, n + 1, Len(s)))

\* '\n'.join(lines)
RECURSIVE JoinLines(_)
JoinLines(lines) ==
    IF Len(lines) = 1 THEN lines[1]
    ELSE lines[1] \o <<"\n">> \o JoinLines(Tail(lines))

\* lines[:10]
HeadLines == 10
HeadOf(lines) == 1..(IF Len(lines) < HeadLines THEN Len(lines) ELSE HeadLines)

\* the first line that starts with 'from typing import' (0: none)
RECURSIVE FirstTypingLine(_, _)
FirstTypingLine(lines, i) ==
    IF i > Len(lines) THEN 0
    ELSE IF StartsWith(lines[i], L_typing) THEN i
    ELSE FirstTypingLine(lines, i + 1)

fix_missing_type_imports(content) ==
    LET lines == SplitLines(content)
        has_typing_import == \E i \in HeadOf(lines) : Contains(lines[i], L_typing)
        has_any_import    == \E i \in HeadOf(lines) : Contains(lines[i], L_Any)
        t == FirstTypingLine(lines, 1)
        fixed ==
            IF Contains(content, L_Any) /\ ~has_any_import
            THEN IF has_typing_import
                 THEN IF t # 0 /\ ~Contains(lines[t], L_Any)
                      THEN IF EndsWith(lines[t], L_import)
                           THEN [lines EXCEPT ![t] = @ \o <<" ">> \o L_Any]
                           ELSE [lines EXCEPT ![t] = @ \o <<",", " ">> \o L_Any]
                      ELSE lines
                 ELSE <<L_typing \o <<" ">> \o L_Any>> \o lines
            ELSE lines
    IN  JoinLines(fixed)

fix_common_swig_issues(content) ==
    ReSub("trailing", ReSub("overload", ReSub("empty", content)))

\* the four fixes as post_process_stub_file composes them
RepairPipeline(content) ==
    fix_common_swig_issues(
        fix_missing_type_imports(
            fix_duplicate_self_parameters(
                fix_malformed_self_parameters(content))))

--------------------------------------------------------------------------
(* SpecRepair: the repair functions on bounded documents                   *)

MaxIdentTokens == 4
MaxParamTokens == 3
MaxPad == 11

RECURSIVE Flatten(_)
Flatten(ts) == IF ts = << >> THEN << >> ELSE Head(ts) \o Flatten(Tail(ts))

TokenTexts(T, n) == {Flatten(ts) : ts \in UNION {[1..k -> T] : k \in 0..n}}

RECURSIVE Newlines(_)
Newlines(n) == IF n = 0 THEN << >> ELSE <<"\n">> \o Newlines(n - 1)

\* identifiers and parameter lists the generator fuses
IdentTokens == {L_self, <<"X">>, <<"a">>, <<"_">>, <<"1">>, <<",", " ">>}
IdentDocs == TokenTexts(IdentTokens, MaxIdentTokens)

\* method declarations
ParamTokens == {<<"a">>, <<",">>, <<" ">>, <<"\n">>}
DeclOpen  == {L_def \o <<"f", "(">>,
              L_overload \o <<" ">> \o L_def \o <<"f", "(">> \o L_self}
DeclClose == {<<")">>, <<")", ":", " ", ".", ".", ".">>}
DeclDocs == {o \o ps \o c : o \in DeclOpen,
                            ps \in TokenTexts(ParamTokens, MaxParamTokens),
                            c \in DeclClose}

\* stub files with and without typing imports, with the dynamic-type marker
\* inside or below the first ten lines
ImportHeads == {<< >>,
                L_typing \o <<" ", "L">>,
                L_typing,
                <<" ">> \o L_typing \o <<" ", "L">>,
                L_typing \o <<" ">> \o L_Any,
                <<"x", ":", " ">> \o L_Any}
ImportTails == {<< >>, L_Any, <<"x", ":", " ">> \o L_Any \o <<"\n">> \o L_typing}
ImportDocs == {h \o Newlines(n) \o t : h \in ImportHeads, n \in 0..MaxPad,
                                      t \in ImportTails}

Docs == IdentDocs \cup DeclDocs \cup ImportDocs

RepairIdle == text_in = << >> /\ text_out = << >> /\ op = "idle"

RepairInit ==
    /\ text_in \in Docs
    /\ text_out = text_in
    /\ op = "none"

Apply(name, result) ==
    /\ op = "none"
    /\ text_out' = result
    /\ op' = name
    /\ UNCHANGED <<text_in, driverVars, loadVars>>

ApplyMalformed == Apply("malformed", fix_malformed_self_parameters(text_in))
ApplyDuplicate == Apply("duplicate", fix_duplicate_self_parameters(text_in))
ApplyImports   == Apply("imports", fix_missing_type_imports(text_in))
ApplySwig      == Apply("swig", fix_common_swig_issues(text_in))
\* a first run of the whole pipeline over the document
RunPipeline    == Apply("pass1", RepairPipeline(text_in))
\* a second run, over the output of the first
RerunPipeline ==
    /\ op = "pass1"
    /\ text_in' = text_out
    /\ text_out' = RepairPipeline(text_out)
    /\ op' = "pass2"
    /\ UNCHANGED <<driverVars, loadVars>>

--------------------------------------------------------------------------
(* SpecDriver: generate_stubs.py run from the command line                 *)

\* except <handler>: whether it catches an exception of class exc
Catches(handler, exc) == handler = exc \/ handler = "Exception"

\* the value of a name no file has
NoFile == <<"ENOENT">>

\* generate_stubs_with_stubgen's list of modules, in its order
Modules == <<"simbody", "common", "simulation", "actuators", "analyses", "tools">>
ModuleSet == {Modules[i] : i \in 1..Len(Modules)}
InitStub == "__init__"
StubNames == ModuleSet \cup {InitStub}

\* what stubgen writes for a module: a sample of clean stubs and of stubs
\* that need a repair
CleanStub == L_def \o <<"f", "(">> \o L_self \o <<")">>
DirtyStub == L_def \o <<"f", "(">> \o L_self \o <<"X", ")">>
StubText(m) == IF m \in {"simbody", "simulation", "analyses"}
               THEN DirtyStub ELSE CleanStub
\* the repair pipeline on the texts stubgen can have written, computed once
Repaired == [t \in {CleanStub, DirtyStub} |-> RepairPipeline(t)]
\* the text create_init_stub writes (its first line stands for the whole)
InitStubText == L_typing \o <<" ">> \o L_Any
\* an __init__.pyi left by an earlier run
OldInitStub == L_def \o <<"g", "(", ")">>

\* what a write that failed after open(file_path, 'w') truncated the file can
\* leave behind: nothing, or a part of the new text
Truncations(new) == {<< >>, Slice(new, 1, Len(new) \div 2)}

\* list(pyopensim_dir.glob("*.pyi")): the files that exist, in an order the
\* file system chooses
Existing(fs, names) == SelectSeq(names, LAMBDA n : fs[n] # NoFile)
Listings(fs) ==
    {Existing(fs, Modules \o <<InitStub>>),
     Existing(fs, <<InitStub, "tools", "analyses", "actuators", "simulation",
                    "common", "simbody">>)}

DriverIdle ==
    /\ dpc = "idle" /\ mypy = "idle" /\ idx = 0 /\ success_count = 0
    /\ n_raised = 0 /\ files = << >> /\ before = << >> /\ todo = << >>
    /\ visited = {} /\ failed = {} /\ escaped = FALSE /\ post_ran = FALSE
    /\ init_ran = FALSE /\ gen_result = "unset" /\ exit_code = -1

DriverInit ==
    /\ dpc = "start"
    /\ mypy \in {"importable", "installable", "unavailable"}
    /\ idx = 1
    /\ success_count = 0
    /\ n_raised = 0
    /\ \E old \in {NoFile, OldInitStub} :
           files = [n \in StubNames |-> IF n = InitStub THEN old ELSE NoFile]
    /\ before = files
    /\ todo = << >>
    /\ visited = {}
    /\ failed = {}
    /\ escaped = FALSE
    /\ post_ran = FALSE
    /\ init_ran = FALSE
    /\ gen_result = "unset"
    /\ exit_code = -1

\* sys.exit(code), or an exception nothing catches (Python then exits with 1)
Exit(code) == dpc' = "exited" /\ exit_code' = code

\* main, lines 252-262: the usage check and output_dir.mkdir
MainStart ==
    /\ dpc = "start"
    /\ \E n_args \in 1..3, mkdir \in {"ok", "OSError"} :
           IF n_args < 2 THEN dpc' = "usage" /\ exit_code' = 1
           ELSE IF mkdir = "OSError" THEN Exit(1)
           ELSE dpc' = "mypy" /\ exit_code' = exit_code
    /\ UNCHANGED <<mypy, idx, success_count, n_raised, files, before, todo,
                   visited, failed, escaped, post_ran, init_ran, gen_result>>
    /\ UNCHANGED <<repairVars, loadVars>>

\* main, lines 265-266, with ensure_mypy_available
EnsureMypy ==
    /\ dpc = "mypy"
    /\ IF mypy = "unavailable" THEN Exit(1)
       ELSE dpc' = "stubgen" /\ exit_code' = exit_code
    /\ UNCHANGED <<mypy, idx, success_count, n_raised, files, before, todo,
                   visited, failed, escaped, post_ran, init_ran, gen_result>>
    /\ UNCHANGED <<repairVars, loadVars>>

\* one turn of generate_stubs_with_stubgen's loop: stubgen returns 0, returns
\* another status (with or without having written the stub), or the
\* invocation raises
StubgenStep ==
    /\ dpc = "stubgen"
    /\ idx <= Len(Modules)
    /\ \E outcome \in {"zero", "nonzero", "raises"}, wrote \in BOOLEAN :
        /\ outcome = "zero" => wrote
        /\ outcome = "raises" => ~wrote
        /\ files' = IF wrote
                    THEN [files EXCEPT ![Modules[idx]] = StubText(Modules[idx])]
                    ELSE files
        /\ success_count' = IF outcome = "raises" THEN success_count
                            ELSE success_count + 1
        /\ n_raised' = IF outcome = "raises" THEN n_raised + 1 ELSE n_raised
    /\ idx' = idx + 1
    /\ UNCHANGED <<dpc, mypy, before, todo, visited, failed, escaped, post_ran,
                   init_ran, gen_result, exit_code>>
    /\ UNCHANGED <<repairVars, loadVars>>

\* return success_count > 0, and main's branch on it (lines 273, 287-289)
StubgenReturn ==
    /\ dpc = "stubgen"
    /\ idx > Len(Modules)
    /\ IF success_count > 0
       THEN gen_result' = "true" /\ dpc' = "post" /\ exit_code' = exit_code
       ELSE gen_result' = "false" /\ Exit(1)
    /\ UNCHANGED <<mypy, idx, success_count, n_raised, files, before, todo,
                   visited, failed, escaped, post_ran, init_ran>>
    /\ UNCHANGED <<repairVars, loadVars>>

\* post_process_all_stubs up to its loop: the directory test and the glob
PostProcessAllStubs ==
    /\ dpc = "post"
    /\ post_ran' = TRUE
    /\ before' = files
    /\ todo' \in Listings(files)
    /\ dpc' = "batch"
    /\ UNCHANGED <<mypy, idx, success_count, n_raised, files, visited, failed,
                   escaped, init_ran, gen_result, exit_code>>
    /\ UNCHANGED <<repairVars, loadVars>>

\* post_process_stub_file on a file holding old, where new is the repaired
\* text and io says which of its file operations raises: the text the file
\* holds afterwards.  Nothing is written when the repair changed nothing;
\* open(file_path, 'w') truncates the file before anything is written
Processed(old, new, io, trunc) ==
    IF io = "read" \/ new = old THEN old
    ELSE IF io = "open" THEN old
    ELSE IF io = "write" THEN trunc
    ELSE new

\* whether that call ran into an exception
Failed(old, new, io) == io = "read" \/ (io # "ok" /\ new # old)

\* the class the except clause of post_process_stub_file names
StubFileHandler == "Exception"

\* one turn of post_process_all_stubs' loop
PostProcessNext ==
    /\ dpc = "batch"
    /\ todo # << >>
    /\ todo' = Tail(todo)
    /\ LET f == Head(todo)
           new == IF f = InitStub THEN files[f] ELSE Repaired[files[f]]
       IN  IF f = InitStub
           THEN UNCHANGED <<files, visited, failed, escaped>>
           ELSE \E io \in {"ok", "read", "open", "write"},
                   trunc \in Truncations(new) :
                    /\ files' = [files EXCEPT ![f] = Processed(@, new, io, trunc)]
                    /\ visited' = visited \cup {f}
                    /\ failed' = IF Failed(files[f], new, io)
                                 THEN failed \cup {f} ELSE failed
                    /\ escaped' = (escaped \/ (Failed(files[f], new, io)
                                     /\ ~Catches(StubFileHandler, "OSError")))
    /\ UNCHANGED <<dpc, mypy, idx, success_count, n_raised, before,
                   post_ran, init_ran, gen_result, exit_code>>
    /\ UNCHANGED <<repairVars, loadVars>>

\* create_init_stub and the end of main: the directory is made and the stub
\* written, or one of the two raises and nothing catches it
CreateInitStub ==
    /\ dpc = "batch"
    /\ todo = << >>
    /\ init_ran' = TRUE
    /\ \E io \in {"ok", "mkdir", "write"} :
           IF io = "ok"
           THEN files' = [files EXCEPT ![InitStub] = InitStubText] /\ Exit(0)
           ELSE IF io = "mkdir" THEN files' = files /\ Exit(1)
           ELSE /\ \E t \in Truncations(InitStubText) :
                       files' = [files EXCEPT ![InitStub] = t]
                /\ Exit(1)
    /\ UNCHANGED <<mypy, idx, success_count, n_raised, before, todo, visited,
                   failed, escaped, post_ran, gen_result>>
    /\ UNCHANGED <<repairVars, loadVars>>

--------------------------------------------------------------------------
(* SpecLoad: the body of src/pyosim/__init__.py, statement by statement    *)

PackageName == "pyosim"
AliasName == "opensim"

\* a slip: math is loaded before the library it depends on
PreloadOrderSwapped == <<"libSimTKmath", "libSimTKcommon", "libSimTKsimbody">>

\* the ctypes.CDLL calls of lines 32-34, in their order
PreloadOrder == <<"libSimTKcommon", "libSimTKmath", "libSimTKsimbody">>

\* the "from . import <name>" statements of lines 43-93, in their order
SubNamespaces == <<"simbody", "common", "simulation", "actuators", "analyses",
                   "tools", "examplecomponents", "moco", "report">>
SubNamespaceSet == {SubNamespaces[i] : i \in 1..Len(SubNamespaces)}

\* the "if <name>:" blocks of lines 97-142, in their order
AliasSources == <<"simbody", "common", "simulation", "actuators", "tools">>

\* a slip: the visualizer is added to the simulation list
ExpectedWithVisualizer(ns) ==
    CASE ns = "simbody" ->
           <<"Vec3", "Rotation", "Transform", "Inertia", "Gray", "SimTK_PI">>
      [] ns = "common" ->
           <<"Component", "Property", "Storage", "Array", "StepFunction",
             "ConsoleReporter">>
      [] ns = "simulation" ->
           <<"Model", "Manager", "State", "Body", "PinJoint",
             "PhysicalOffsetFrame", "Ellipsoid", "Millard2012EquilibriumMuscle",
             "PrescribedController", "InverseKinematicsSolver",
             "InverseDynamicsSolver", "ModelVisualizer">>
      [] ns = "actuators" -> <<"Muscle", "CoordinateActuator", "PointActuator">>
      [] ns = "tools" ->
           <<"InverseKinematicsTool", "InverseDynamicsTool", "ForwardTool",
             "AnalyzeTool">>
      [] OTHER -> << >>

\* the hand-maintained lists of the names looked up in each sub-namespace
Expected(ns) ==
    CASE ns = "simbody" ->
           <<"Vec3", "Rotation", "Transform", "Inertia", "Gray", "SimTK_PI">>
      [] ns = "common" ->
           <<"Component", "Property", "Storage", "Array", "StepFunction",
             "ConsoleReporter">>
      [] ns = "simulation" ->
           <<"Model", "Manager", "State", "Body", "PinJoint",
             "PhysicalOffsetFrame", "Ellipsoid", "Millard2012EquilibriumMuscle",
             "PrescribedController", "InverseKinematicsSolver",
             "InverseDynamicsSolver">>
      [] ns = "actuators" -> <<"Muscle", "CoordinateActuator", "PointActuator">>
      [] ns = "tools" ->
           <<"InverseKinematicsTool", "InverseDynamicsTool", "ForwardTool",
             "AnalyzeTool">>
      [] OTHER -> << >>

Range(seq) == {seq[i] : i \in 1..Len(seq)}
ExpectedSet(ns) == Range(Expected(ns))

\* __all__ as written on lines 159-178
NominalAll ==
    <<"simbody", "common", "simulation", "actuators", "analyses", "tools",
      "examplecomponents", "moco", "report",
      "Model", "Manager", "State", "Body",
      "Component", "Property",
      "Vec3", "Rotation", "Transform", "Inertia",
      "PinJoint", "PhysicalOffsetFrame", "Ellipsoid",
      "Millard2012EquilibriumMuscle", "PrescribedController",
      "StepFunction", "ConsoleReporter",
      "Gray", "SimTK_PI",
      "Storage", "Array",
      "InverseKinematicsSolver", "InverseDynamicsSolver",
      "Muscle", "CoordinateActuator", "PointActuator",
      "InverseKinematicsTool", "InverseDynamicsTool",
      "ForwardTool", "AnalyzeTool",
      "__version__">>

Visualizer == "ModelVisualizer"
GlobalNames == Range(NominalAll) \cup {Visualizer}
    \cup UNION {ExpectedSet(ns) : ns \in SubNamespaceSet}

\* the symbols a generated module has: the expected ones it has not lost,
\* and classes no list names (the simulation module has the visualizer)
DriftChoices == {{}, {"Vec3", "Millard2012EquilibriumMuscle", "AnalyzeTool"}}
Exposes(ns, lost) ==
    (ExpectedSet(ns) \ lost)
        \cup (IF ns = "simulation" THEN {Visualizer} ELSE {})

Event(kind, name) == [kind |-> kind, name |-> name]

LoadIdle ==
    /\ pc = "idle" /\ pos = 0 /\ platform = "idle" /\ log = << >>
    /\ environ = << >> /\ sys_modules = << >> /\ next_id = 0
    /\ init_count = 0 /\ glob = << >> /\ drift = {} /\ geometry_done = FALSE
    /\ all_list = << >> /\ raised = "none" /\ imported = << >>

LoadInit ==
    /\ pc = "start"
    /\ pos = 1
    /\ platform \in {"win", "unix"}
    /\ log = << >>
    /\ environ \in IF platform = "win" THEN {<< >>}
                   ELSE {<< >>, <<"/usr/lib">>}
    /\ sys_modules = [n \in {PackageName, AliasName} |-> 0]
    /\ next_id = 1
    /\ init_count = 0
    /\ glob = [n \in GlobalNames |-> "unbound"]
    /\ drift \in DriftChoices
    /\ geometry_done = FALSE
    /\ all_list = << >>
    /\ raised = "none"
    /\ imported = [n \in {PackageName, AliasName} |-> 0]

Continue(next) == pc' = next /\ UNCHANGED <<raised, sys_modules>>

\* the classes the except clauses of the body name
PreloadHandler  == "OSError"
ImportHandler   == "ImportError"
GetattrHandler  == "AttributeError"
VersionHandler  == "ImportError"
GeometryHandler == "NameError"

\* "import pyosim" reaches the package for the first time: the import system
\* makes the module object, registers it and starts the body
BeginLoad ==
    /\ pc = "start"
    /\ sys_modules' = [sys_modules EXCEPT ![PackageName] = next_id]
    /\ next_id' = next_id + 1
    /\ init_count' = init_count + 1
    /\ pc' = "setup"
    /\ UNCHANGED <<pos, platform, log, environ, glob, drift, geometry_done,
                   all_list, raised, imported>>
    /\ UNCHANGED <<repairVars, driverVars>>

\* lines 17-28: the DLL directory (Windows), LD_LIBRARY_PATH (elsewhere)
SetupLibraryPath ==
    /\ pc = "setup"
    /\ \E lib_exists \in BOOLEAN :
        IF ~lib_exists
        THEN pc' = "register" /\ UNCHANGED <<log, environ>>
        ELSE IF platform = "win"
        THEN /\ log' = Append(log, Event("setup", "add_dll_directory"))
             /\ pc' = "register"
             /\ UNCHANGED environ
        ELSE /\ environ' = <<"lib">> \o environ
             /\ log' = Append(log, Event("setup", "LD_LIBRARY_PATH"))
             /\ pc' = "preload"
    /\ UNCHANGED <<pos, platform, sys_modules, next_id, init_count, glob, drift,
                   geometry_done, all_list, raised, imported>>
    /\ UNCHANGED <<repairVars, driverVars>>

\* lines 31-36: the three preloads in one try block; the first n_ok succeed
PreloadLibraries ==
    /\ pc = "preload"
    /\ \E n_ok \in 0..Len(PreloadOrder) :
        LET loaded == [i \in 1..n_ok |-> Event("preload", PreloadOrder[i])]
        IN  IF n_ok = Len(PreloadOrder)
            THEN log' = log \o loaded /\ Continue("register")
            ELSE /\ log' = log \o loaded
                        \o <<Event("preload_failed", PreloadOrder[n_ok + 1])>>
                 /\ IF Catches(PreloadHandler, "OSError")
                    THEN Continue("register")
                    ELSE /\ pc' = "failed"
                         /\ raised' = "OSError"
                         /\ sys_modules' = [sys_modules EXCEPT ![PackageName] = 0]
    /\ UNCHANGED <<pos, platform, environ, next_id, init_count, glob, drift,
                   geometry_done, all_list, imported>>
    /\ UNCHANGED <<repairVars, driverVars>>

\* a slip: the right-hand side looks the alias up instead of the package
AliasTargetStale(registry) == registry[AliasName]

\* sys.modules[__name__]
AliasTarget(registry) == registry[PackageName]

\* line 40
RegisterAlias ==
    /\ pc = "register"
    /\ sys_modules' = [sys_modules EXCEPT ![AliasName] = AliasTarget(sys_modules)]
    /\ log' = Append(log, Event("alias", AliasName))
    /\ pc' = "imports"
    /\ pos' = 1
    /\ UNCHANGED <<platform, environ, next_id, init_count, glob, drift,
                   geometry_done, all_list, raised, imported>>
    /\ UNCHANGED <<repairVars, driverVars>>

\* an exception raised where the body has a handler for class handler
Handle(handler, exc, next) ==
    IF Catches(handler, exc)
    THEN Continue(next)
    ELSE /\ pc' = "failed"
         /\ raised' = exc
         /\ sys_modules' = [sys_modules EXCEPT ![PackageName] = 0]

\* lines 43-93: one guarded "from . import <name>"
ImportSubNamespace ==
    /\ pc = "imports"
    /\ LET ns == SubNamespaces[pos]
           next == IF pos = Len(SubNamespaces) THEN "aliases" ELSE "imports"
       IN  /\ pos' = IF pos = Len(SubNamespaces) THEN 1 ELSE pos + 1
           /\ \E ok \in BOOLEAN :
                IF ok
                THEN /\ log' = Append(log, Event("import", ns))
                     /\ glob' = [glob EXCEPT ![ns] = "module"]
                     /\ Continue(next)
                ELSE /\ log' = log \o <<Event("import", ns),
                                        Event("import_failed", ns)>>
                     /\ glob' = [glob EXCEPT ![ns] = "None"]
                     /\ Handle(ImportHandler, "ImportError", next)
    /\ UNCHANGED <<platform, environ, next_id, init_count, drift, geometry_done,
                   all_list, imported>>
    /\ UNCHANGED <<repairVars, driverVars>>

\* lines 97-142: one "if <name>:" block with its loop of guarded getattr
AliasSymbols ==
    /\ pc = "aliases"
    /\ LET ns == AliasSources[pos]
           next == IF pos = Len(AliasSources) THEN "version" ELSE "aliases"
           found == ExpectedSet(ns) \cap Exposes(ns, drift)
       IN  /\ pos' = IF pos = Len(AliasSources) THEN 1 ELSE pos + 1
           /\ IF glob[ns] = "module"
              THEN /\ glob' = [n \in GlobalNames |->
                                  IF n \in found THEN ns ELSE glob[n]]
                   /\ IF ExpectedSet(ns) \subseteq found
                      THEN Continue(next)
                      ELSE Handle(GetattrHandler, "AttributeError", next)
              ELSE glob' = glob /\ Continue(next)
    /\ UNCHANGED <<platform, log, environ, next_id, init_count, drift,
                   geometry_done, all_list, imported>>
    /\ UNCHANGED <<repairVars, driverVars>>

\* lines 145-148
ImportVersion ==
    /\ pc = "version"
    /\ \E ok \in BOOLEAN :
        IF ok
        THEN /\ glob' = [glob EXCEPT !["__version__"] = "version"]
             /\ Continue("geometry")
        ELSE /\ glob' = [glob EXCEPT !["__version__"] = "0.0.1"]
             /\ Handle(VersionHandler, "ImportError", "geometry")
    /\ UNCHANGED <<pos, platform, log, environ, next_id, init_count, drift,
                   geometry_done, all_list, imported>>
    /\ UNCHANGED <<repairVars, driverVars>>

\* lines 151-156: the name ModelVisualizer is looked up in globals()
GeometrySetup ==
    /\ pc = "geometry"
    /\ \E dir_exists \in BOOLEAN :
        IF ~dir_exists
        THEN UNCHANGED <<log, geometry_done>> /\ Continue("exports")
        ELSE IF glob[Visualizer] = "unbound"
        THEN /\ log' = Append(log, Event("geometry", "NameError"))
             /\ UNCHANGED geometry_done
             /\ Handle(GeometryHandler, "NameError", "exports")
        ELSE /\ log' = Append(log, Event("geometry", "registered"))
             /\ geometry_done' = TRUE
             /\ Continue("exports")
    /\ UNCHANGED <<pos, platform, environ, next_id, init_count, glob, drift,
                   all_list, imported>>
    /\ UNCHANGED <<repairVars, driverVars>>

\* a slip: the filter of line 181 is left out
ExportUnfiltered(nominal, g) == nominal

\* [item for item in __all__ if globals().get(item) is not None]
ExportFilter(nominal, g) ==
    SelectSeq(nominal, LAMBDA n : g[n] \notin {"unbound", "None"})

\* lines 159-181
ComputeAll ==
    /\ pc = "exports"
    /\ all_list' = ExportFilter(NominalAll, glob)
    /\ pc' = "done"
    /\ UNCHANGED <<pos, platform, log, environ, sys_modules, next_id,
                   init_count, glob, drift, geometry_done, raised, imported>>
    /\ UNCHANGED <<repairVars, driverVars>>

\* "import <name>": the import system returns the registered object, or
\* finds none and makes, registers and initialises a new one
ImportByName(st, n) ==
    IF st.registry[n] # 0
    THEN [st EXCEPT !.got = [@ EXCEPT ![n] = st.registry[n]]]
    ELSE [registry |-> [st.registry EXCEPT ![n] = st.fresh],
          fresh    |-> st.fresh + 1,
          inits    |-> st.inits + 1,
          got      |-> [st.got EXCEPT ![n] = st.fresh]]

\* after the load, client code imports the package under both of its names
ConsumerImport ==
    /\ pc = "done"
    /\ imported[PackageName] = 0
    /\ LET st0 == [registry |-> sys_modules, fresh |-> next_id,
                   inits |-> init_count, got |-> imported]
           st2 == ImportByName(ImportByName(st0, PackageName), AliasName)
       IN  /\ sys_modules' = st2.registry
           /\ next_id' = st2.fresh
           /\ init_count' = st2.inits
           /\ imported' = st2.got
    /\ UNCHANGED <<pc, pos, platform, log, environ, glob, drift, geometry_done,
                   all_list, raised>>
    /\ UNCHANGED <<repairVars, driverVars>>

--------------------------------------------------------------------------
(* The three specifications                                                *)

RepairNext ==
    \/ ApplyMalformed \/ ApplyDuplicate \/ ApplyImports \/ ApplySwig
    \/ RunPipeline \/ RerunPipeline

DriverNext ==
    \/ MainStart \/ EnsureMypy \/ StubgenStep \/ StubgenReturn
    \/ PostProcessAllStubs \/ PostProcessNext \/ CreateInitStub

LoadNext ==
    \/ BeginLoad \/ SetupLibraryPath \/ PreloadLibraries \/ RegisterAlias
    \/ ImportSubNamespace \/ AliasSymbols \/ ImportVersion \/ GeometrySetup
    \/ ComputeAll \/ ConsumerImport

InitRepair == RepairInit /\ DriverIdle /\ LoadIdle
InitDriver == DriverInit /\ RepairIdle /\ LoadIdle
InitLoad   == LoadInit /\ RepairIdle /\ DriverIdle

SpecRepair == InitRepair /\ [][RepairNext]_vars
SpecDriver == InitDriver /\ [][DriverNext]_vars
SpecLoad   == InitLoad /\ [][LoadNext]_vars

--------------------------------------------------------------------------
(* The claims                                                              *)

HasEvent(kind, name) == \E i \in DOMAIN log : log[i] = Event(kind, name)
Exported == Range(all_list)

\* C1: once the package has finished loading, the registry entries for
\* 'opensim' and for the package name are the same module object, the body
\* was initialised exactly once, and a later import of either name returns
\* that one object.
C1_SameObject ==
    pc = "done" =>
        /\ sys_modules[PackageName] # 0
        /\ sys_modules[AliasName] = sys_modules[PackageName]
        /\ init_count = 1
        /\ \A n \in DOMAIN imported :
               imported[n] \in {0, sys_modules[PackageName]}

C1_Witness ==
    /\ pc = "done"
    /\ imported[AliasName] # 0
    /\ imported[AliasName] = imported[PackageName]
    /\ \E ns \in SubNamespaceSet : HasEvent("import_failed", ns)
    /\ \E i \in DOMAIN log : log[i].kind = "preload_failed"

\* the sub-namespaces whose import failed
FailedImports == {log[i].name : i \in {j \in DOMAIN log : log[j].kind = "import_failed"}}
AttemptedImports == {log[i].name : i \in {j \in DOMAIN log : log[j].kind = "import"}}

\* C2: whichever sub-namespaces fail to import, the load ends without an
\* exception escaping, every failed sub-namespace is bound to None, every
\* flat symbol the loader bound comes from a sub-namespace that was imported
\* and has it, and __all__ holds neither a failed sub-namespace nor any name
\* of a failed sub-namespace's expected list.
C2_PartialLoad ==
    /\ pc # "failed"
    /\ raised = "none"
    /\ pc = "done" =>
        LET lost == FailedImports
            exported == Exported
        IN  /\ AttemptedImports = SubNamespaceSet
            /\ \A ns \in SubNamespaceSet :
                 glob[ns] = IF ns \in lost THEN "None" ELSE "module"
            /\ \A ns \in lost :
                 ns \notin exported /\ ExpectedSet(ns) \cap exported = {}
            /\ \A n \in GlobalNames \ SubNamespaceSet :
                 glob[n] \in SubNamespaceSet =>
                     glob[n] \notin lost /\ n \in Exposes(glob[n], drift)
            /\ \A n \in exported : glob[n] \notin {"unbound", "None"}

C2_Witness ==
    /\ pc = "done"
    /\ HasEvent("import_failed", "common")
    /\ HasEvent("import_failed", "moco")
    /\ ~HasEvent("import_failed", "simbody")
    /\ glob["Rotation"] = "simbody"
    /\ "Rotation" \in Exported
    /\ "Component" \notin Exported
    /\ "common" \notin Exported

\* the order the claim names
LibRank(name) ==
    CASE name = "libSimTKcommon" -> 1
      [] name = "libSimTKmath" -> 2
      [] name = "libSimTKsimbody" -> 3
      [] OTHER -> 0
IsSetupEvent(e) == e.kind \in {"setup", "preload", "preload_failed"}

\* C8: every native-library setup step (the DLL directory, LD_LIBRARY_PATH,
\* the preloads) comes before the first sub-namespace import; the libraries
\* are preloaded in the order common, math, simbody, none before an earlier
\* one; and after a failed preload all the imports are still attempted.
C8_SetupBeforeImports ==
    /\ \A i \in {n \in DOMAIN log : IsSetupEvent(log[n])} :
         /\ \A j \in 1..(i - 1) : log[j].kind # "import"
         /\ log[i].kind = "setup" =>
                \A j \in 1..(i - 1) : ~IsSetupEvent(log[j])
         /\ log[i].kind # "setup" =>
                /\ LibRank(log[i].name) # 0
                /\ \A j \in 1..(i - 1) :
                       log[j].kind = "preload_failed" \/
                       (log[j].kind = "preload" =>
                            LibRank(log[j].name) < LibRank(log[i].name))
                /\ \A r \in 1..(LibRank(log[i].name) - 1) :
                       \E j \in 1..(i - 1) :
                           log[j].kind = "preload" /\ LibRank(log[j].name) = r
    /\ (\E i \in DOMAIN log : log[i].kind = "preload_failed") => pc # "failed"
    /\ pc = "done" => AttemptedImports = SubNamespaceSet

C8_Witness ==
    /\ pc = "done"
    /\ platform = "unix"
    /\ HasEvent("setup", "LD_LIBRARY_PATH")
    /\ HasEvent("preload", "libSimTKmath")
    /\ HasEvent("preload_failed", "libSimTKsimbody")
    /\ HasEvent("import", "report")

\* C10: in every load the geometry registration call is never performed: the
\* name ModelVisualizer is never bound in the flat namespace, so whenever the
\* Geometry directory exists the attempt ends in the guarded NameError
\* branch, and nothing is raised.
C10_GeometryNeverRegistered ==
    /\ ~geometry_done
    /\ glob # << >> => glob[Visualizer] = "unbound"
    /\ \A i \in DOMAIN log :
           log[i].kind = "geometry" => log[i].name = "NameError"
    /\ raised = "none"
    /\ pc # "failed"

C10_Witness ==
    /\ pc = "done"
    /\ HasEvent("geometry", "NameError")
    /\ \A ns \in SubNamespaceSet : glob[ns] = "module"
    /\ drift = {}

--------------------------------------------------------------------------
(* Claims about the repair functions (SpecRepair)                          *)

\* an identifier tail: a letter or an underscore, then word characters
IdentTail(n) ==
    /\ n # << >>
    /\ n[1] \in Upper \cup Lower \cup {"_"}
    /\ \A i \in DOMAIN n : n[i] \in WordChar
\* the text is one fused identifier self<Name>
Fused(s) == StartsWith(s, L_self) /\ IdentTail(Slice(s, 5, Len(s)))
FusedName(s) == Slice(s, 5, Len(s))
\* the text is 'self, <Name>'
Separated(s) == StartsWith(s, L_selfSep) /\ IdentTail(Slice(s, 7, Len(s)))
SeparatedName(s) == Slice(s, 7, Len(s))
\* the name itself begins with 'self' followed by a character of class C
BeginsFused(n, C) == StartsWith(n, L_self) /\ Len(n) >= 5 /\ n[5] \in C

\* C4 as stated: every fused identifier self<Name> (Name beginning with an
\* uppercase letter, a lowercase letter or an underscore) becomes exactly
\* 'self, <Name>', and a text that already reads 'self, <Name>' is left alone.
C4_EveryFusedSplitOnce ==
    op = "malformed" =>
        /\ Fused(text_in) => text_out = L_selfSep \o FusedName(text_in)
        /\ Separated(text_in) => text_out = text_in

\* C4 as amended: the same, for every Name that does not itself begin with
\* 'self' followed by an uppercase letter or an underscore (such a Name is
\* split once more by the third pattern); and 'self, <Name>' is left alone
\* when <Name> is not itself a fused identifier.
C4_FusedSplitOnce ==
    op = "malformed" =>
        /\ (Fused(text_in) /\ ~BeginsFused(FusedName(text_in), Upper \cup {"_"}))
               => text_out = L_selfSep \o FusedName(text_in)
        /\ (Separated(text_in)
               /\ ~BeginsFused(SeparatedName(text_in), Upper \cup Lower \cup {"_"}))
               => text_out = text_in

C4_Witness ==
    /\ op = "malformed"
    /\ Fused(text_in)
    /\ text_in[5] = "_"
    /\ Len(text_in) >= 7
    /\ text_in[6] \in Lower
    /\ text_out = L_selfSep \o FusedName(text_in)

\* C3: the repair pipeline is idempotent on its own output: a second run
\* over an already repaired document changes nothing.
C3_Idempotent == op = "pass2" => text_out = text_in

HasTrailingComma(s) == \E i \in DOMAIN s : TrailingCommaMatchEnd(s, i) # 0

\* C5: after fix_common_swig_issues no 'def name(...)' parameter list ends
\* with a comma (and any white space) before its closing parenthesis, and a
\* text without such a comma is left unchanged by the substitution.
C5_NoTrailingComma ==
    op = "swig" =>
        /\ ~HasTrailingComma(text_out)
        /\ ~HasTrailingComma(text_in) => ReSub("trailing", text_in) = text_in

\* the text has a line importing Any from typing
ImportsAny(s) ==
    \E i \in DOMAIN SplitLines(s) :
        /\ StartsWith(SplitLines(s)[i], L_typing)
        /\ Contains(Slice(SplitLines(s)[i], Len(L_typing) + 1,
                          Len(SplitLines(s)[i])), L_Any)

\* C6: when the text uses the marker Any and does not import it, the output
\* of fix_missing_type_imports has an import line for Any; when the text
\* does not use the marker, the output equals the input.
C6_ImportCompleted ==
    op = "imports" =>
        /\ (Contains(text_in, L_Any) /\ ~ImportsAny(text_in))
               => ImportsAny(text_out)
        /\ ~Contains(text_in, L_Any) => text_out = text_in

--------------------------------------------------------------------------
(* Claims about the driver (SpecDriver)                                    *)

\* C7: a run with an output directory argument ends with exit code 1 exactly
\* when mypy can be neither imported nor installed or all six stubgen
\* invocations raise, and with 0 otherwise; the post-processing and the
\* synthesis of __init__.pyi run only after generation reported success.
C7_ExitCode ==
    /\ dpc = "exited" =>
        /\ exit_code \in {0, 1}
        /\ exit_code = 1 <=> (mypy = "unavailable" \/ n_raised = Len(Modules))
    /\ (post_ran \/ init_ran) => gen_result = "true"

\* C9: when the batch has visited every stub file, no exception has left
\* post_process_stub_file, every file whose processing failed holds what it
\* held before the batch, and every '*.pyi' except '__init__.pyi' has been
\* processed.
C9_FailureIsolated ==
    (post_ran /\ todo = << >>) =>
        /\ ~escaped
        /\ \A f \in failed : files[f] = before[f]
        /\ visited = {m \in ModuleSet : before[m] # NoFile}

==========================================================================
